---- MODULE Spec2Model ----
(***************************************************************************)
(* Model of the Wikipedia skill (src/__init__.py): the WikipediaSolver     *)
(* (get_secondary_search, get_data, get_image, get_expanded_answer) and    *)
(* the WikipediaSkill facade with its "tell me more" pagination state      *)
(* (idx, results, image) and the WikiKnows context marker.                 *)
(*                                                                         *)
(* Strings are modelled as sequences of tokens: a query or title is the    *)
(* sequence of its words split on single spaces (so the empty word ""      *)
(* stands for two adjacent spaces, and <<>> or <<"">> is the empty         *)
(* string); a text is the sequence of its sentences.                       *)
(***************************************************************************)
EXTENDS Integers, Sequences, FiniteSets, TLC

\* ------------------------------------------------------------------------
\* Bounds
\* ------------------------------------------------------------------------

\* largest number of sentences the library returns as a page summary
MaxSummary == 2

\* ------------------------------------------------------------------------
\* Python values
\* ------------------------------------------------------------------------

\* Python's None and a present value, in one record shape
None == [none |-> TRUE, v |-> <<>>]
Some(x) == [none |-> FALSE, v |-> x]

\* truth value of a Python str (None and "" are falsy)
TruthyStr(s) == s # <<>> /\ s # <<"">>
\* truth value of an optional str
TruthyOpt(o) == ~o.none /\ TruthyStr(o.v)

\* str.title(): every word capitalised
TitleWord(w) ==
    CASE w = "who" -> "Who"
      [] w = "is" -> "Is"
      [] w = "what" -> "What"
      [] w = "the" -> "The"
      [] w = "of" -> "Of"
      [] w = "it" -> "It"
      [] w = "population" -> "Population"
      [] w = "king" -> "King"
      [] w = "newton" -> "Newton"
      [] w = "france" -> "France"
      [] w = "isaac" -> "Isaac"
      [] w = "early" -> "Early"
      [] w = "life" -> "Life"
      [] w = "death" -> "Death"
      [] w = "quem" -> "Quem"
      [] w = "e" -> "E"
      [] OTHER -> w
title(s) == [i \in 1..Len(s) |-> TitleWord(s[i])]

\* ------------------------------------------------------------------------
\* Inputs: queries and locale tags
\* ------------------------------------------------------------------------

Queries ==
    { <<"who", "is", "newton">>,
      <<"newton">>,
      <<"what", "is", "the", "population", "of", "france">>,
      <<"what", "is", "the", "king", "of", "king", "of", "france">>,
      <<"what", "is", "the", "", "of", "france">>,
      <<"what", "is", "the", "of", "it">>,
      <<"quem", "e", "newton">> }

\* locale tags, split on "-"
LocaleTags == { <<"en", "us">>, <<"pt", "br">> }

\* config["lang"] = "en": the solver's default language
default_lang == <<"en">>

\* lang.split("-")[0]
LangPrefix(tag) == tag[1]

\* ------------------------------------------------------------------------
\* The external world: wikipedia_for_humans, simplematch, the keyword
\* extractor.  A world w fixes what the libraries answer during one
\* handler call:
\*   w.known  the topics that have a page
\*   w.fuzzy  whether a full question finds the page of the topic it names
\*   w.nsum   the number of sentences of a page summary
\*   w.greedy whether the template matcher's holes are greedy
\*   w.fail   the library entry point that raises ("none": no failure)
\* ------------------------------------------------------------------------

Topics == {"newton", "france"}
LibCalls == {"page_data", "tldr", "summary", "tldr_about", "ask_about"}

Worlds ==
    [ known : SUBSET Topics,
      fuzzy : BOOLEAN,
      nsum : 0..MaxSummary,
      greedy : BOOLEAN,
      fail : LibCalls \cup {"none"} ]

\* a sentence, and the blank piece a text may contain between sentences
Sentence(topic, n) == [topic |-> topic, n |-> n]
Blank == [topic |-> "", n |-> 0]

Contains(s, x) == \E i \in 1..Len(s) : s[i] = x

\* the topic whose page the library finds for a text, "" when none
Lookup(text, w) ==
    IF \E t \in w.known : text = <<t>>
    THEN CHOOSE t \in w.known : text = <<t>>
    ELSE IF w.fuzzy /\ \E t \in w.known : Contains(text, t)
    THEN CHOOSE t \in w.known : Contains(text, t)
    ELSE ""

PageTitle(topic) ==
    CASE topic = "newton" -> <<"isaac", "newton">>
      [] OTHER -> <<>>

PageSections(topic) ==
    CASE topic = "newton" ->
           << [title |-> <<"early", "life">>,
               text |-> <<Sentence("newton", 11), Blank, Sentence("newton", 12)>>],
              [title |-> <<"death">>, text |-> <<>>],
              [title |-> <<"death">>, text |-> <<Sentence("newton", 31)>>] >>
      [] OTHER -> <<>>

PageImages(topic) ==
    CASE topic = "newton" -> <<"newton.jpg", "apple.jpg">>
      [] OTHER -> <<>>

NoPage == [found |-> FALSE, title |-> <<>>, sections |-> <<>>, images |-> <<>>]

\* wikipedia_for_humans.page_data(query, lang) or {}
lib_page_data(query, w) ==
    LET t == Lookup(query, w) IN
    IF t = "" THEN NoPage
    ELSE [found |-> TRUE, title |-> PageTitle(t),
          sections |-> PageSections(t), images |-> PageImages(t)]

\* wikipedia_for_humans.summary(query, lang)
lib_summary(query, w) ==
    LET t == Lookup(query, w) IN
    IF t = "" THEN <<>> ELSE [i \in 1..w.nsum |-> Sentence(t, i)]

\* wikipedia_for_humans.tldr(query, lang): the first sentence of the summary
lib_tldr(query, w) ==
    LET s == lib_summary(query, w) IN
    IF s = <<>> THEN <<>> ELSE <<s[1]>>

\* wikipedia_for_humans.ask_about(subquery, query, lang)
lib_ask_about(subquery, query, w) ==
    LET t == Lookup(query, w) IN
    IF t = "" \/ subquery # <<"population">> THEN <<>>
    ELSE <<Sentence(t, 21), Sentence(t, 22)>>

\* wikipedia_for_humans.tldr_about(subquery, query, lang)
lib_tldr_about(subquery, query, w) ==
    LET s == lib_ask_about(subquery, query, w) IN
    IF s = <<>> THEN <<>> ELSE <<s[1]>>

\* ------------------------------------------------------------------------
\* WikipediaSolver
\* ------------------------------------------------------------------------

\* the words the heuristic extractor strips from the front of a question
StopWords(lang) ==
    IF lang = "en" THEN {"who", "what", "is", "the", "of", "it", ""}
    ELSE IF lang = "pt" THEN {"quem", "e", ""}
    ELSE {""}

RECURSIVE DropLeading(_, _)
DropLeading(s, stop) ==
    IF s = <<>> THEN <<>>
    ELSE IF s[1] \in stop THEN DropLeading(Tail(s), stop)
    ELSE s

\* WikipediaSolver.extract_keyword: HeuristicExtractor().extract_subject
extract_keyword(query, lang) == DropLeading(query, StopWords(lang))

\* positions of the literal " of " that split "what is the {subquery} of {query}"
OfPositions(query) ==
    IF Len(query) >= 6 /\ SubSeq(query, 1, 3) = <<"what", "is", "the">>
    THEN {k \in 5..(Len(query) - 1) : query[k] = "of"}
    ELSE {}

Max(S) == CHOOSE x \in S : \A y \in S : y <= x
Min(S) == CHOOSE x \in S : \A y \in S : x <= y

\* simplematch.match("what is the {subquery} of {query}", query)
simplematch_match(query, w) ==
    LET ks == OfPositions(query) IN
    IF ks = {} THEN [matched |-> FALSE, query |-> <<>>, subquery |-> <<>>]
    ELSE LET k == IF w.greedy THEN Max(ks) ELSE Min(ks) IN
         [matched |-> TRUE,
          query |-> SubSeq(query, k + 1, Len(query)),
          subquery |-> SubSeq(query, 4, k - 1)]

\* get_secondary_search with the two captures returned in the wrong order
get_secondary_search_swapped(query, lang, w) ==
    LET match == simplematch_match(query, w) IN
    IF lang = "en" /\ match.matched
    THEN [query |-> match.subquery, subquery |-> Some(match.query)]
    ELSE [query |-> extract_keyword(query, lang), subquery |-> None]

\* WikipediaSolver.get_secondary_search
get_secondary_search(query, lang, w) ==
    LET match == simplematch_match(query, w) IN
    IF lang = "en" /\ match.matched
    THEN [query |-> match.query, subquery |-> Some(match.subquery)]
    ELSE [query |-> extract_keyword(query, lang), subquery |-> None]

\* one call of a library entry point
Call(fn, subquery, query) == [fn |-> fn, subquery |-> subquery, query |-> query]

\* the calls made up to and including the first one that raises
RECURSIVE UpToFailure(_, _)
UpToFailure(plan, fail) ==
    IF plan = <<>> THEN <<>>
    ELSE IF plan[1].fn = fail THEN <<plan[1]>>
    ELSE <<plan[1]>> \o UpToFailure(Tail(plan), fail)

Raises(plan, fail) == \E i \in 1..Len(plan) : plan[i].fn = fail

\* lang = (context.get("lang") or self.default_lang).split("-")[0]
ContextLang(tag) == LangPrefix(IF tag = <<>> THEN default_lang ELSE tag)

\* whether get_data runs the secondary search: "if not page_data"
NeedsSecondary(page_data) == ~page_data.found

\* FinalQuery with the title falling back to the caller's text even after
\* the secondary search rewrote the subject
FinalQuery_original(query, lang, page_data, w) == query

\* the subject bound to "query" when get_data builds the title
FinalQuery(query, lang, page_data, w) ==
    IF NeedsSecondary(page_data) THEN get_secondary_search(query, lang, w).query
    ELSE query

\* page_data["title"] = page_data.get("title") or query
DataTitle(page_title, query) == IF TruthyStr(page_title) THEN page_title ELSE query

\* WikipediaSolver.get_data: the library calls it makes (trace), whether one
\* of them raised, and the dict it returns otherwise
get_data(query, tag, w) ==
    LET lang == ContextLang(tag)
        page_data == lib_page_data(query, w)
        primary == << Call("page_data", <<>>, query),
                      Call("tldr", <<>>, query),
                      Call("summary", <<>>, query) >>
        sec == get_secondary_search(query, lang, w)
        secondary ==
            IF ~NeedsSecondary(page_data) THEN <<>>
            ELSE IF TruthyOpt(sec.subquery)
            THEN << Call("tldr_about", sec.subquery.v, sec.query),
                    Call("ask_about", sec.subquery.v, sec.query) >>
            ELSE << Call("tldr", <<>>, sec.query),
                    Call("summary", <<>>, sec.query) >>
        data ==
            IF ~NeedsSecondary(page_data)
            THEN [short_answer |-> lib_tldr(query, w),
                  summary |-> lib_summary(query, w)]
            ELSE IF TruthyOpt(sec.subquery)
            THEN [short_answer |-> lib_tldr_about(sec.subquery.v, sec.query, w),
                  summary |-> lib_ask_about(sec.subquery.v, sec.query, w)]
            ELSE [short_answer |-> lib_tldr(sec.query, w),
                  summary |-> lib_summary(sec.query, w)]
        plan == primary \o secondary
    IN  [ raised |-> Raises(plan, w.fail),
          trace |-> UpToFailure(plan, w.fail),
          ret |-> [ title |-> DataTitle(page_data.title,
                                        FinalQuery(query, lang, page_data, w)),
                    short_answer |-> data.short_answer,
                    summary |-> data.summary,
                    sections |-> page_data.sections,
                    images |-> page_data.images ] ]

\* WikipediaSolver.extract_and_search, then data["images"][0] or None
get_image(query, tag, w) ==
    LET lang == ContextLang(tag)
        kw == extract_keyword(query, lang)
        d == get_data(kw, tag, w)
    IN  IF ~TruthyStr(kw) THEN [raised |-> FALSE, ret |-> None]
        ELSE IF d.raised THEN [raised |-> TRUE, ret |-> None]
        ELSE IF d.ret.images = <<>> THEN [raised |-> FALSE, ret |-> None]
        ELSE [raised |-> FALSE, ret |-> Some(d.ret.images[1])]

\* self.sentence_split(text, -1): the non-blank sentences, in order
sentence_split(text) == SelectSeq(text, LAMBDA s : s # Blank)

\* one step of the expanded answer
Step(t, s, img) == [title |-> t, summary |-> s, img |-> img]

\* the steps of a text under one title
StepsOf(t, text, img) ==
    LET ss == sentence_split(text) IN
    [i \in 1..Len(ss) |-> Step(title(t), ss[i], img)]

\* SectionSteps with each section put in front of the ones before it
RECURSIVE SectionSteps_reversed(_, _)
SectionSteps_reversed(sections, img) ==
    IF sections = <<>> THEN <<>>
    ELSE SectionSteps_reversed(Tail(sections), img)
         \o StepsOf(sections[1].title, sections[1].text, img)

\* the steps of the sections, in section order
RECURSIVE SectionSteps(_, _)
SectionSteps(sections, img) ==
    IF sections = <<>> THEN <<>>
    ELSE StepsOf(sections[1].title, sections[1].text, img)
         \o SectionSteps(Tail(sections), img)

\* the steps built from a dict returned by get_data
Paginate(data, img) ==
    StepsOf(data.title, data.summary, img) \o SectionSteps(data.sections, img)

\* WikipediaSolver.get_expanded_answer
get_expanded_answer(query, tag, w) ==
    LET d == get_data(query, tag, w)
        i == get_image(query, tag, w)
    IN  IF d.raised \/ i.raised THEN [raised |-> TRUE, ret |-> <<>>]
        ELSE [raised |-> FALSE, ret |-> Paginate(d.ret, i.ret)]

\* QuestionSolver.long_answer(query, lang=...), as used by the skill
long_answer(query, tag, w) == get_expanded_answer(query, tag, w)

\* ------------------------------------------------------------------------
\* WikipediaSkill: state
\* ------------------------------------------------------------------------

VARIABLES
    lang,           \* self.lang, the skill's locale tag
    idx,            \* self.idx, the cursor
    results,        \* self.results: None or Some(list of steps)
    image,          \* self.image: None or Some(url)
    current_title,  \* self.current_title
    context,        \* the WikiKnows context marker: None when absent
    gui,            \* what the GUI shows
    spoken,         \* what the last handler call spoke, in order
    logged,         \* whether the last handler call logged an error
    exc,            \* the exception that ended the last handler call, "none" if it returned
    op,             \* the last handler called
    cqs_match,      \* the match the last CQS_match_query_phrase returned, None if none
    run,            \* history: the current run of chunk requests (see Run)
    answer,         \* history: the outcome of long_answer in the last top-level query
    repeat,         \* history: the last call was a top-level query repeating the call before it (see Repeats)
    call            \* a direct call of a solver method: its arguments and its outcome

vars == << lang, idx, results, image, current_title, context, gui, spoken,
           logged, exc, op, cqs_match, run, answer, repeat, call >>

\* the fields of the skill object a handler reads and writes
Self ==
    [ idx |-> idx, results |-> results, image |-> image,
      current_title |-> current_title, context |-> context, gui |-> gui,
      spoken |-> spoken, logged |-> logged ]

\* self.speak_dialog(name) and self.speak(sentence)
Dialog(name, data) == [kind |-> "dialog", name |-> name, data |-> data, text |-> Blank]
Speak(s) == [kind |-> "speak", name |-> "", data |-> <<>>, text |-> s]

\* the GUI showing nothing, the search animation, or an image under a title
GuiIdle == [kind |-> "idle", image |-> "", title |-> <<>>]
GuiAnimated == [kind |-> "animated", image |-> "jumping.gif", title |-> <<>>]
GuiImage(img, t) == [kind |-> "image", image |-> img, title |-> t]

\* WikipediaSkill.display_wiki_entry(title), can_gui: can_use_gui(self.bus)
display_wiki_entry(self, t, can_gui) ==
    IF can_gui /\ ~self.image.none
    THEN [self EXCEPT !.gui = GuiImage(self.image.v, t)]
    ELSE self

\* self.results is truthy: a non-empty list
HasResults(r) == ~r.none /\ r.v # <<>>

\* what ask_the_wiki stores in self.results
StoreResults(la) == IF la.raised THEN None ELSE Some(la.ret)

\* ResetIdx with the assignment self.idx = 0 left out
ResetIdx_kept(i) == i

\* the cursor ask_the_wiki sets before it resolves the query
ResetIdx(i) == 0

\* the context marker ask_the_wiki sets before it resolves the query
AskContext(query, ctx) == Some(query)

\* what the solver does in one call of ask_the_wiki: the outcome la of
\* self.wiki.long_answer(query, lang=self.lang) and the outcome gi of
\* self.wiki.get_image(query), in the same world
SolverOutcome(query, tag, w) ==
    [la |-> long_answer(query, tag, w), gi |-> get_image(query, <<>>, w)]

\* the outcomes the worlds allow, for every query and locale tag
SolverOutcomes ==
    { [query |-> q, tag |-> t, o |-> SolverOutcome(q, t, w)] :
        q \in Queries, t \in LocaleTags, w \in Worlds }

\* WikipediaSkill.ask_the_wiki: the skill after the call, whether it raised,
\* and the (title, summary) it returns otherwise
ask_the_wiki(self, query, la, gi) ==
    LET s1 == [self EXCEPT !.context = AskContext(query, self.context),
                           !.idx = ResetIdx(self.idx),
                           !.results = StoreResults(la),
                           !.logged = la.raised]
        s2 == [s1 EXCEPT !.image = gi.ret]
    IN  IF gi.raised
        THEN [self |-> s1, raised |-> TRUE, title |-> None, summary |-> None]
        ELSE IF HasResults(s2.results)
        THEN [self |-> s2, raised |-> FALSE,
              title |-> Some(IF TruthyStr(s2.results.v[1].title)
                             THEN s2.results.v[1].title ELSE query),
              summary |-> Some(s2.results.v[1].summary)]
        ELSE [self |-> s2, raised |-> FALSE, title |-> None, summary |-> None]

\* Exhausted as an emit-then-check test, one request early
Exhausted_early(i, n) == i + 1 >= n

\* the test of speak_result: self.idx + 1 > len(self.results)
Exhausted(i, n) == i + 1 > n

\* Advance skipping a chunk
Advance_twice(i) == i + 2

\* the cursor after a chunk is spoken
Advance(i) == i + 1

\* Rewind with the assignment self.idx = 0 left out
Rewind_kept(i) == i

\* the cursor after exhaustion is signalled
Rewind(i) == 0

\* speak_result dropping the answer and its image when it signals exhaustion
speak_result_clearing(self, can_gui) ==
    IF self.results.none
    THEN [self |-> self, raised |-> TRUE]
    ELSE IF Exhausted(self.idx, Len(self.results.v))
    THEN [self |-> [self EXCEPT !.spoken = Append(self.spoken, Dialog("thats all", <<>>)),
                                !.context = None,
                                !.results = Some(<<>>),
                                !.image = None,
                                !.idx = Rewind(self.idx)],
          raised |-> FALSE]
    ELSE LET step == self.results.v[self.idx + 1]
             s1 == [self EXCEPT !.spoken = Append(self.spoken, Speak(step.summary)),
                                !.context = Some(<<"wikipedia">>)]
             s2 == display_wiki_entry(s1, step.title, can_gui)
         IN  [self |-> [s2 EXCEPT !.idx = Advance(self.idx)], raised |-> FALSE]

\* WikipediaSkill.speak_result; len(None) raises TypeError
speak_result(self, can_gui) ==
    IF self.results.none
    THEN [self |-> self, raised |-> TRUE]
    ELSE IF Exhausted(self.idx, Len(self.results.v))
    THEN [self |-> [self EXCEPT !.spoken = Append(self.spoken, Dialog("thats all", <<>>)),
                                !.context = None,
                                !.idx = Rewind(self.idx)],
          raised |-> FALSE]
    ELSE LET step == self.results.v[self.idx + 1]
             s1 == [self EXCEPT !.spoken = Append(self.spoken, Speak(step.summary)),
                                !.context = Some(<<"wikipedia">>)]
             s2 == display_wiki_entry(s1, step.title, can_gui)
         IN  [self |-> [s2 EXCEPT !.idx = Advance(self.idx)], raised |-> FALSE]

\* "if summary:" on the summary ask_the_wiki returned
TruthySummary(o) == ~o.none /\ o.v # Blank

\* a run of chunk requests: the cursor it began at, the speak_result calls
\* completed in it, and whether the last of them signalled exhaustion
Run(s, n, e) == [start |-> s, requests |-> n, ended |-> e]

\* the run after one more completed speak_result call
NextRun(r, exhausted) ==
    IF r.ended THEN Run(0, 1, exhausted)
    ELSE Run(r.start, r.requests + 1, exhausted)

\* WikipediaSkill.handle_search(message), message.data["query"] = query
SearchOutcome(self, query, o, can_gui) ==
    LET s0 == [self EXCEPT !.gui = GuiAnimated,
                           !.current_title = query,
                           !.spoken = <<Dialog("searching", query)>>,
                           !.logged = FALSE,
                           !.image = None]
        a == ask_the_wiki(s0, query, o.la, o.gi)
        sr == speak_result(a.self, can_gui)
    IN  IF a.raised
        THEN [self |-> a.self, exc |-> "SolverError", run |-> Run(0, 0, FALSE)]
        ELSE IF TruthySummary(a.summary)
        THEN IF sr.raised
             THEN [self |-> sr.self, exc |-> "TypeError", run |-> Run(0, 0, FALSE)]
             ELSE [self |-> sr.self, exc |-> "none",
                   run |-> NextRun(Run(0, 0, FALSE),
                                   Exhausted(a.self.idx, Len(a.self.results.v)))]
        ELSE [self |-> [a.self EXCEPT !.spoken = Append(a.self.spoken,
                                                       Dialog("no_answer", <<>>))],
              exc |-> "none", run |-> Run(0, 0, FALSE)]

\* whether two optional values are the same
SameOpt(a, b) == a.none = b.none /\ (~a.none => a.v = b.v)

\* whether a top-level query with text query and solver outcomes so repeats
\* the handler call just before it: that call was a top-level query with
\* the same text (kept in current_title by handle_search and in the context
\* marker by CQS_match_query_phrase) and the same outcomes of long_answer
\* and get_image
Repeats(query, so) ==
    /\ op \in {"handle_search", "CQS_match_query_phrase"}
    /\ query = (IF op = "handle_search" THEN current_title ELSE context.v)
    /\ answer = so.la
    /\ so.gi.raised = (exc = "SolverError")
    /\ (~so.gi.raised => SameOpt(so.gi.ret, image))

\* the skill's fields after a handler call
Becomes(self) ==
    /\ idx' = self.idx
    /\ results' = self.results
    /\ image' = self.image
    /\ current_title' = self.current_title
    /\ context' = self.context
    /\ gui' = self.gui
    /\ spoken' = self.spoken
    /\ logged' = self.logged

handle_search(query, so, can_gui) ==
    LET o == SearchOutcome(Self, query, so, can_gui) IN
    /\ Becomes(o.self)
    /\ exc' = o.exc
    /\ op' = "handle_search"
    /\ cqs_match' = None
    /\ run' = o.run
    /\ answer' = so.la
    /\ repeat' = Repeats(query, so)
    /\ UNCHANGED << lang, call >>

\* WikipediaSkill.handle_tell_more(message)
TellMoreOutcome(self, can_gui) ==
    LET sr == speak_result([self EXCEPT !.spoken = <<>>, !.logged = FALSE], can_gui) IN
    IF sr.raised THEN [self |-> sr.self, exc |-> "TypeError", exhausted |-> FALSE]
    ELSE [self |-> sr.self, exc |-> "none",
          exhausted |-> Exhausted(self.idx, Len(self.results.v))]

handle_tell_more(can_gui) ==
    LET o == TellMoreOutcome(Self, can_gui) IN
    /\ Becomes(o.self)
    /\ exc' = o.exc
    /\ op' = "handle_tell_more"
    /\ cqs_match' = None
    /\ run' = IF o.exc = "none" THEN NextRun(run, o.exhausted) ELSE run
    /\ repeat' = FALSE
    /\ UNCHANGED << lang, answer, call >>

\* SpokenByCommonQuery with the increment left out
SpokenByCommonQuery_not(i) == i

\* the cursor after CQS_match_query_phrase found a summary: self.idx += 1
SpokenByCommonQuery(i) == i + 1

\* the callback data CQS_match_query_phrase returns with a match
MatchData(phrase, img, t, summary) ==
    [query |-> phrase, image |-> img, title |-> t, answer |-> summary]

\* WikipediaSkill.CQS_match_query_phrase(phrase)
MatchOutcome(self, phrase, o) ==
    LET a == ask_the_wiki([self EXCEPT !.spoken = <<>>, !.logged = FALSE], phrase, o.la, o.gi) IN
    IF a.raised
    THEN [self |-> a.self, exc |-> "SolverError", ret |-> None]
    ELSE IF TruthySummary(a.summary)
    THEN [self |-> [a.self EXCEPT !.idx = SpokenByCommonQuery(a.self.idx)],
          exc |-> "none",
          ret |-> Some(MatchData(phrase, a.self.image, a.title.v, a.summary.v))]
    ELSE [self |-> a.self, exc |-> "none", ret |-> None]

CQS_match_query_phrase(phrase, so) ==
    LET o == MatchOutcome(Self, phrase, so) IN
    /\ Becomes(o.self)
    /\ exc' = o.exc
    /\ op' = "CQS_match_query_phrase"
    /\ cqs_match' = o.ret
    /\ run' = Run(o.self.idx, 0, FALSE)
    /\ answer' = so.la
    /\ repeat' = Repeats(phrase, so)
    /\ UNCHANGED << lang, call >>

\* WikipediaSkill.CQS_action(phrase, data), called with the data of the match
ActionOutcome(self, phrase, data, can_gui) ==
    LET s1 == display_wiki_entry([self EXCEPT !.spoken = <<>>, !.logged = FALSE],
                                 <<"Wikipedia">>, can_gui)
    IN  [s1 EXCEPT !.context = Some(IF TruthyStr(data.title) THEN data.title ELSE phrase)]

CQS_action(can_gui) ==
    /\ ~cqs_match.none
    /\ Becomes(ActionOutcome(Self, cqs_match.v.query, cqs_match.v, can_gui))
    /\ exc' = "none"
    /\ op' = "CQS_action"
    /\ cqs_match' = None
    /\ repeat' = FALSE
    /\ UNCHANGED << lang, run, answer, call >>

\* no solver method called directly
NoCall == [pc |-> "idle", query |-> <<>>, tag |-> <<>>, out |-> <<>>,
           w |-> [known |-> {}, fuzzy |-> FALSE, nsum |-> 0, greedy |-> FALSE,
                  fail |-> "none"]]

\* WikipediaSkill.__init__
SkillInit ==
    /\ idx = 0
    /\ results = Some(<<>>)
    /\ image = None
    /\ current_title = <<>>
    /\ context = None
    /\ gui = GuiIdle
    /\ spoken = <<>>
    /\ logged = FALSE
    /\ exc = "none"
    /\ op = "init"
    /\ cqs_match = None
    /\ run = Run(0, 0, FALSE)
    /\ answer = [raised |-> FALSE, ret |-> <<>>]
    /\ repeat = FALSE

Init ==
    /\ lang \in LocaleTags
    /\ SkillInit
    /\ call = NoCall

Next ==
    \/ \E so \in SolverOutcomes, g \in BOOLEAN :
          so.tag = lang /\ handle_search(so.query, so.o, g)
    \/ \E g \in BOOLEAN : handle_tell_more(g)
    \/ \E so \in SolverOutcomes :
          so.tag = lang /\ CQS_match_query_phrase(so.query, so.o)
    \/ \E g \in BOOLEAN : CQS_action(g)

Spec == Init /\ [][Next]_vars

\* ------------------------------------------------------------------------
\* The solver called directly: WikipediaSolver's methods applied to a query,
\* a context language ("" when the context carries none) and a world
\* ------------------------------------------------------------------------

ContextTags == LocaleTags \cup {<<>>}

InitSolver ==
    /\ lang = <<"en", "us">>
    /\ SkillInit
    /\ \E q \in Queries, t \in ContextTags, w \in Worlds :
          call = [pc |-> "ready", query |-> q, tag |-> t, w |-> w, out |-> <<>>]

Returned(name, out) ==
    /\ call.pc = "ready"
    /\ call' = [call EXCEPT !.pc = name, !.out = out]
    /\ UNCHANGED << lang, idx, results, image, current_title, context, gui,
                    spoken, logged, exc, op, cqs_match, run, answer, repeat >>

call_get_secondary_search ==
    Returned("get_secondary_search",
             get_secondary_search(call.query, ContextLang(call.tag), call.w))

call_get_data ==
    Returned("get_data", get_data(call.query, call.tag, call.w))

call_get_image ==
    Returned("get_image", get_image(call.query, call.tag, call.w))

call_get_expanded_answer ==
    Returned("get_expanded_answer", get_expanded_answer(call.query, call.tag, call.w))

NextSolver ==
    \/ call_get_secondary_search
    \/ call_get_data
    \/ call_get_image
    \/ call_get_expanded_answer

SpecSolver == InitSolver /\ [][NextSolver]_vars

\* ------------------------------------------------------------------------
\* Properties of the solver (checked under SpecSolver)
\* ------------------------------------------------------------------------

CallLang == ContextLang(call.tag)

\* the library has no page for the text get_data was called with
PageDataEmpty == ~lib_page_data(call.query, call.w).found

\* the ways to read a text as "what is the {A} of {B}", as pairs <<A, B>>
Decompositions(q) ==
    { <<SubSeq(q, 4, k - 1), SubSeq(q, k + 1, Len(q))>> : k \in
        { k \in 5..(Len(q) - 1) :
            q = <<"what", "is", "the">> \o SubSeq(q, 4, k - 1) \o <<"of">>
                \o SubSeq(q, k + 1, Len(q)) } }

\* the secondary search falls through to the keyword extractor
FallsThrough == CallLang # "en" \/ Decompositions(call.query) = {}

\* the result with every field empty
EmptyResult ==
    [title |-> <<>>, short_answer |-> <<>>, summary |-> <<>>,
     sections |-> <<>>, images |-> <<>>]

SecondaryCalls == SubSeq(call.out.trace, 4, Len(call.out.trace))

IsPrefix(s, t) == Len(s) <= Len(t) /\ SubSeq(t, 1, Len(s)) = s

\* get_data attempts the secondary search only when the page data is empty,
\* and then fetches exactly one pair of answers
OneSecondaryInterpretation ==
    /\ ~PageDataEmpty => Len(call.out.trace) <= 3
    /\ Len(call.out.trace) <= 5
    /\ (PageDataEmpty /\ ~call.out.raised) => Len(call.out.trace) = 5

\* the fall-through case: the keyword extractor on the raw query, no qualifier
FallThroughRight ==
    /\ call.pc = "get_secondary_search" /\ FallsThrough
         => call.out = [query |-> extract_keyword(call.query, CallLang),
                        subquery |-> None]
    /\ call.pc = "get_data" /\ FallsThrough
         => LET kw == extract_keyword(call.query, CallLang) IN
            IsPrefix(SecondaryCalls, <<Call("tldr", <<>>, kw), Call("summary", <<>>, kw)>>)

\* the attribute-scoped fetch of A about B
ScopedFetch(A, B) == <<Call("tldr_about", A, B), Call("ask_about", A, B)>>

\* the plain fetch of B
PlainFetch(B) == <<Call("tldr", <<>>, B), Call("summary", <<>>, B)>>

\* C9 as claimed: the secondary search runs only on empty page data and picks
\* one interpretation; an English "what is the A of B" gives subject B and
\* qualifier A and the attribute-scoped fetch; anything else gives the
\* extracted keyword, no qualifier and the plain fetch.
C9_Claimed ==
    /\ call.pc = "get_data" => OneSecondaryInterpretation
    /\ FallThroughRight
    /\ call.pc = "get_secondary_search" /\ ~FallsThrough
         => \E d \in Decompositions(call.query) :
               call.out = [query |-> d[2], subquery |-> Some(d[1])]
    /\ call.pc = "get_data" /\ ~FallsThrough
         => \E d \in Decompositions(call.query) :
               IsPrefix(SecondaryCalls, ScopedFetch(d[1], d[2]))

\* C9 amended: as claimed, except that the attribute-scoped fetch is made only
\* when the captured A is not the empty string; with an empty A the plain
\* short answer and summary of B are fetched.
C9_SecondarySearch ==
    /\ call.pc = "get_data" => OneSecondaryInterpretation
    /\ FallThroughRight
    /\ call.pc = "get_secondary_search" /\ ~FallsThrough
         => \E d \in Decompositions(call.query) :
               call.out = [query |-> d[2], subquery |-> Some(d[1])]
    /\ call.pc = "get_data" /\ ~FallsThrough
         => \E d \in Decompositions(call.query) :
               IsPrefix(SecondaryCalls,
                        IF TruthyStr(d[1]) THEN ScopedFetch(d[1], d[2])
                        ELSE PlainFetch(d[2]))

C9_Witness ==
    /\ call.pc = "get_data"
    /\ ~call.out.raised
    /\ PageDataEmpty
    /\ CallLang = "en"
    /\ SecondaryCalls = ScopedFetch(<<"population">>, <<"france">>)
    /\ call.out.ret.summary # <<>>

\* the pieces of the answer's texts, each with the title it is spoken under:
\* the summary under the answer's title, then every section under its own
RECURSIVE TitledPieces(_)
TitledPieces(sections) ==
    IF sections = <<>> THEN <<>>
    ELSE [i \in 1..Len(sections[1].text) |->
            [title |-> sections[1].title, piece |-> sections[1].text[i]]]
         \o TitledPieces(Tail(sections))

ExpectedChunks(data) ==
    SelectSeq([i \in 1..Len(data.summary) |->
                 [title |-> data.title, piece |-> data.summary[i]]]
              \o TitledPieces(data.sections),
              LAMBDA p : p.piece # Blank)

TopLevel == {"handle_search", "CQS_match_query_phrase"}

LastSpoken == spoken[Len(spoken)]

ThatsAll == Dialog("thats all", <<>>)
NoAnswer == Dialog("no_answer", <<>>)

\* C1 as claimed: self.results is always a sequence and 0 <= idx <= len(results),
\* whatever handlers ran and whether or not the solver failed.
C1_Claimed ==
    /\ ~results.none
    /\ 0 <= idx
    /\ idx <= Len(results.v)

\* C2: starting from cursor 0 with N chunks, the n-th speak_result call speaks
\* chunk n-1 (0-based) for every n <= N and leaves the cursor at n; the
\* (N+1)-th call speaks the exhaustion dialog instead and resets the cursor
\* to 0; there is no later call in the run.
C2_ExhaustionBoundary ==
    ( /\ op \in {"handle_search", "handle_tell_more"}
      /\ exc = "none"
      /\ ~results.none
      /\ run.start = 0
      /\ run.requests >= 1 )
    => LET N == Len(results.v)
           n == run.requests
       IN  /\ n <= N + 1
           /\ n <= N => /\ LastSpoken = Speak(results.v[n].summary)
                        /\ idx = n
                        /\ ~run.ended
           /\ n = N + 1 => /\ LastSpoken = ThatsAll
                           /\ idx = 0
                           /\ run.ended

C2_Witness ==
    /\ op = "handle_tell_more"
    /\ exc = "none"
    /\ ~results.none
    /\ Len(results.v) >= 2
    /\ run.start = 0
    /\ run.requests = Len(results.v) + 1
    /\ LastSpoken = ThatsAll
    /\ idx = 0

\* C3 as claimed: no handler call ends with an uncaught exception, and a
\* failure of the solver in a top-level query is logged and leaves an empty
\* result.
C3_Claimed ==
    /\ exc = "none"
    /\ (op \in TopLevel /\ answer.raised) => (logged /\ ~HasResults(results))

\* C4: after a top-level query whose long_answer returned, whatever the state
\* before it, the chunk sequence is exactly what long_answer returned for the
\* new query, the cursor counts only the chunks of the new query consumed by
\* this call (0 or 1), and any chunk spoken or returned by the call is the
\* first chunk of the new sequence.
C4_NewQueryReplacesState ==
    (op \in TopLevel /\ ~answer.raised)
    => /\ results = Some(answer.ret)
       /\ idx = (IF exc = "none" /\ answer.ret # <<>> THEN 1 ELSE 0)
       /\ \A i \in 1..Len(spoken) :
             spoken[i].kind = "speak"
             => answer.ret # <<>> /\ spoken[i].text = answer.ret[1].summary
       /\ ~cqs_match.none
             => answer.ret # <<>> /\ cqs_match.v.answer = answer.ret[1].summary

\* the GUI still shows a section chunk of an earlier answer, spoken by a
\* "more" request, while the query just resolved has no such chunk
C4_Witness ==
    /\ op = "CQS_match_query_phrase"
    /\ exc = "none"
    /\ ~answer.raised
    /\ gui.kind = "image"
    /\ gui.title = <<"Early", "Life">>
    /\ Len(answer.ret) = 2
    /\ \A i \in 1..2 : answer.ret[i].title # <<"Early", "Life">>
    /\ idx = 1

\* C5: a "more" request that finds the cursor at or beyond the end of the
\* chunk sequence speaks the exhaustion dialog and nothing else, resets the
\* cursor to 0, removes the WikiKnows marker and returns normally.
C5_ExhaustionStep ==
    [][ ( /\ op' = "handle_tell_more"
          /\ ~results.none
          /\ idx >= Len(results.v) )
        => ( /\ spoken' = <<ThatsAll>>
             /\ idx' = 0
             /\ context' = None
             /\ exc' = "none" ) ]_vars

C5_Witness ==
    /\ op = "handle_tell_more"
    /\ exc = "none"
    /\ run.ended
    /\ run.requests = 3
    /\ spoken = <<ThatsAll>>
    /\ idx = 0
    /\ context = None
    /\ gui.kind = "image"

\* C6 as claimed: a search that ends with "no answer" does not leave the
\* WikiKnows marker set to its query.
C6_Claimed ==
    ( /\ op = "handle_search"
      /\ exc = "none"
      /\ LastSpoken = NoAnswer )
    => context # Some(current_title)

\* C7 as claimed: a search whose resolution found nothing or whose solver
\* raised speaks "searching" and then the "no_answer" dialog, no chunk, and
\* returns normally.
C7_Claimed ==
    (op = "handle_search" /\ (answer.raised \/ answer.ret = <<>>))
    => /\ exc = "none"
       /\ spoken = <<Dialog("searching", current_title), NoAnswer>>

\* C11: a top-level query that repeats the handler call just before it (the
\* same text, the same data from the solver, no chunk request in between),
\* both calls returning normally, leaves the chunk sequence, the cursor and
\* the cached image exactly as the first call left them.
C11_ResolveIdempotent ==
    [][ (repeat' /\ exc = "none" /\ exc' = "none")
        => ( /\ results' = results
             /\ idx' = idx
             /\ SameOpt(image', image) ) ]_vars

C11_Witness ==
    /\ repeat
    /\ op = "handle_search"
    /\ exc = "none"
    /\ ~results.none
    /\ Len(results.v) >= 3
    /\ results = Some(answer.ret)
    /\ idx = 1
    /\ ~image.none

\* get_data returned and the page data carried no title
NoPageTitle ==
    /\ call.pc = "get_data"
    /\ ~call.out.raised
    /\ ~TruthyStr(lib_page_data(call.query, call.w).title)

SpokenChunks(sp) == SelectSeq(sp, LAMBDA x : x.kind = "speak")

\* C13: the cursor moves by exactly one with each chunk delivered and by
\* nothing else: a "more" request speaks chunks[cursor] and adds one, or
\* signals exhaustion and returns to 0, or raises and leaves it; CQS_action
\* leaves it; a top-level query that delivers a chunk (spoken by
\* handle_search, returned by CQS_match_query_phrase) delivers chunks[0] of
\* the new sequence and leaves the cursor at 1, and at 0 otherwise.
C13_CursorAdvance ==
    [][ /\ (op' = "handle_tell_more" /\ exc' = "none")
           => \/ /\ idx < Len(results.v)
                 /\ spoken' = <<Speak(results.v[idx + 1].summary)>>
                 /\ idx' = idx + 1
              \/ /\ idx >= Len(results.v)
                 /\ spoken' = <<ThatsAll>>
                 /\ idx' = 0
        /\ (op' = "handle_tell_more" /\ exc' # "none")
           => (idx' = idx /\ spoken' = <<>>)
        /\ op' = "CQS_action" => (idx' = idx /\ spoken' = <<>>)
        /\ op' = "handle_search"
           => IF SpokenChunks(spoken') = <<>> THEN idx' = 0
              ELSE /\ HasResults(results')
                   /\ SpokenChunks(spoken') = <<Speak(results'.v[1].summary)>>
                   /\ idx' = 1
        /\ op' = "CQS_match_query_phrase"
           => /\ spoken' = <<>>
              /\ IF cqs_match'.none THEN idx' = 0
                 ELSE /\ HasResults(results')
                      /\ cqs_match'.v.answer = results'.v[1].summary
                      /\ idx' = 1 ]_vars

\* chunk 0 was returned to the common-query framework, chunks 1 and 2 were
\* spoken by the two "more" requests that followed
C13_Witness ==
    /\ op = "handle_tell_more"
    /\ exc = "none"
    /\ run = Run(1, 2, FALSE)
    /\ idx = 3
    /\ Len(results.v) >= 4
    /\ spoken = <<Speak(results.v[3].summary)>>

\* C14: after an exhaustion signal with at least one chunk and no new query,
\* the next "more" request speaks chunks[0] again and is not an exhaustion;
\* and a search resolved after an exhaustion speaks chunks[0] of its own
\* answer and leaves the cursor at 1.
C14_ExhaustedWraps ==
    [][ /\ (run.ended /\ op' = "handle_tell_more" /\ HasResults(results))
           => /\ exc' = "none"
              /\ spoken' = <<Speak(results.v[1].summary)>>
              /\ idx' = 1
              /\ ~run'.ended
        /\ (run.ended /\ op' = "handle_search" /\ exc' = "none" /\ HasResults(results'))
           => /\ results' = Some(answer'.ret)
              /\ SpokenChunks(spoken') = <<Speak(results'.v[1].summary)>>
              /\ idx' = 1
              /\ ~run'.ended ]_vars

\* a "more" request that is the first of a new run from cursor 0 and speaks
\* chunk 0 while the GUI still shows the last chunk of the pass before it
C14_Witness ==
    /\ op = "handle_tell_more"
    /\ exc = "none"
    /\ run = Run(0, 1, FALSE)
    /\ Len(results.v) = 5
    /\ spoken = <<Speak(results.v[1].summary)>>
    /\ idx = 1
    /\ gui.kind = "image"
    /\ gui.title = results.v[5].title
    /\ gui.title # results.v[1].title

\* C15: when CQS_match_query_phrase returns a match the cursor is 1, and the
\* "more" request that follows speaks chunks[1], or signals exhaustion when
\* there is exactly one chunk; when it returns no match the cursor is 0; in
\* both cases the chunk sequence is the one resolved for the offered phrase,
\* whatever session was under way.
C15_CommonQueryCursor ==
    [][ /\ (op' = "CQS_match_query_phrase" /\ exc' = "none")
           => /\ results' = (IF answer'.raised THEN None ELSE Some(answer'.ret))
              /\ run' = Run(idx', 0, FALSE)
              /\ IF cqs_match'.none THEN idx' = 0
                 ELSE idx' = 1 /\ HasResults(results')
        /\ (op = "CQS_match_query_phrase" /\ ~cqs_match.none /\ op' = "handle_tell_more")
           => /\ exc' = "none"
              /\ IF Len(results.v) = 1
                 THEN spoken' = <<ThatsAll>> /\ idx' = 0
                 ELSE spoken' = <<Speak(results.v[2].summary)>> /\ idx' = 2 ]_vars

C15_Witness ==
    /\ op = "handle_tell_more"
    /\ exc = "none"
    /\ run = Run(1, 1, FALSE)
    /\ Len(results.v) >= 2
    /\ spoken = <<Speak(results.v[2].summary)>>
    /\ idx = 2

\* C16: a "more" request leaves the chunk sequence and the cached image
\* unchanged, whether it speaks a chunk, signals exhaustion or raises; so
\* does CQS_action; only handle_search and CQS_match_query_phrase change them.
C16_MoreKeepsAnswer ==
    [][ /\ op' \in {"handle_tell_more", "CQS_action"}
           => (results' = results /\ SameOpt(image', image))
        /\ (results' # results \/ ~SameOpt(image', image))
           => op' \in TopLevel ]_vars

C16_Witness ==
    /\ op = "handle_tell_more"
    /\ exc = "none"
    /\ spoken = <<ThatsAll>>
    /\ Len(results.v) >= 2
    /\ image = Some("newton.jpg")
    /\ idx = 0

====
